---- MODULE Spec2Model ----
(***************************************************************************)
(* Model of bangbang-timed (src/src/lib.rs): TimeConstrainedOnOff, an      *)
(* on/off bang-bang controller whose state changes are gated by a minimum  *)
(* dwell time per state, measured with a caller-supplied millisecond       *)
(* counter that may wrap or be reset.                                      *)
(*                                                                         *)
(* Durations (core::time::Duration) are finer than a millisecond; they are *)
(* counted here in units of 1/SubMs ms.  The millisecond counter is a u32  *)
(* in the program; the controller model runs it on the ring 0..MaxMs, the  *)
(* pure function assess_time_delta is also exercised on readings of up to  *)
(* 31 bits (SpecAssess).                                                   *)
(***************************************************************************)
EXTENDS Integers, FiniteSets

\* ------------------------------------------------------------ bounds
\* largest value of the millisecond counter in the controller model
\* (u32::MAX in the program); the counter wraps to 0 after it
MaxMs == 3
\* Duration units per millisecond (1_000_000 ns in core::time::Duration)
SubMs == 2
\* largest configured minimum, in Duration units
MaxMin == 3
\* largest number of milliseconds that pass between the two clock readings
\* of one set call (time taken by the handler)
MaxLatency == 1
\* readings taken this close to 0, to 2^30 and to Top in SpecAssess
Near == 3

\* the largest reading TLC enumerates here, 2^31 - 2 (a reading of
\* the program is a u32 and goes up to 2^32 - 1)
Top == (2^30 - 2) + 2^30

\* ------------------------------------------------------------ state
VARIABLES
    constructed,     \* TimeConstrainedOnOff::new has run
    state,           \* bang_bang.state(): "A" (off) or "B" (on)
    handle_on,       \* bang_bang's on handler is Some
    handle_off,      \* bang_bang's off handler is Some
    minimum_on,      \* Option<Duration>: {} is None, {m} is Some(m)
    minimum_off,     \* Option<Duration>
    last_changed,    \* the stored last-transition reading
    now,             \* what the clock closure returns at this instant
    op,              \* the operation of the last step
    result,          \* what the last set/bang returned
    called_on,       \* invocations of the on handler during the last step
    called_off,      \* invocations of the off handler during the last step
    handler_err,     \* a handler invoked during the last step returned Err
    real_in_state,   \* real ms since the current state was entered (saturating)
    irregular,       \* the counter was reset to a nonzero smaller value since then
    requested,       \* the state the last set/bang asked for ({} when none)
    error,           \* the StateChangeTemporarilyConstrained it returned, if any
    samples,         \* clock readings taken during the last step
    first_reading,   \* the reading the last call took before its dwell check
    construction_window, \* {t0}: constructed at reading t0, no success, wrap or reset since
    twin,            \* the same controller, spared every request that is rejected
    queried,         \* what state(), is_on(), is_off() answered in the last step
    prior_milliseconds,  \* SpecAssess: first argument of assess_time_delta
    later_milliseconds,  \* SpecAssess: second argument
    time_delta,          \* SpecAssess: its result
    assessed             \* SpecAssess: the function has been applied

ctl == <<constructed, state, handle_on, handle_off, minimum_on, minimum_off,
         last_changed>>
obs == <<op, result, called_on, called_off, handler_err>>
call == <<requested, error, samples, first_reading, queried>>
hist == <<construction_window, twin>>
env == <<now, real_in_state, irregular>>
pure == <<prior_milliseconds, later_milliseconds, time_delta, assessed>>
vars == <<ctl, obs, env, pure, call, hist>>

None == {}
Some(x) == {x}
Readings == 0..MaxMs
OptionDuration == {None} \cup {Some(m) : m \in 0..MaxMin}
BangBangState == {"A", "B"}

\* real time is tracked up to the point where every minimum is exceeded
RealCap == MaxMin
Saturate(x) == IF x > RealCap THEN RealCap ELSE x

\* ------------------------------------------------------------ pure functions
\* u32 subtraction: the difference when it is representable; a build with
\* overflow checks panics and one without wraps, so an underflow is marked
u32_sub(a, b) == IF a >= b THEN a - b ELSE -1

\* assess_time_delta with the guard against a counter overrun removed
assess_time_delta_no_guard(prior, later) == u32_sub(later, prior)

\* assess_time_delta taking the earlier reading as the delta after an overrun
assess_time_delta_prior(prior, later) ==
    IF later < prior THEN prior ELSE u32_sub(later, prior)

assess_time_delta(prior, later) ==
    IF later < prior THEN later ELSE u32_sub(later, prior)

\* Duration::from_millis
from_millis(ms) == ms * SubMs

\* the match on current_state in set
min_duration_swapped(current_state, m_on, m_off) ==
    IF current_state = "A" THEN m_on ELSE m_off

min_duration(current_state, m_on, m_off) ==
    IF current_state = "A" THEN m_off ELSE m_on

\* the dwell check of set: Some(min) and min > elapsed
dwell_constrained_nonstrict(min, delta) ==
    \E m \in min : m >= from_millis(delta)

dwell_constrained_none_blocks(min, delta) ==
    \/ \E m \in min : m > from_millis(delta)
    \/ (min = None /\ delta = 0)

dwell_constrained(min, delta) ==
    \E m \in min : m > from_millis(delta)

\* the reading stored by set once the delegated call returned
last_changed_after_always(ok, old, first, second) == second

last_changed_after_first(ok, old, first, second) ==
    IF ok THEN first ELSE old

last_changed_after(ok, old, first, second) ==
    IF ok THEN second ELSE old

\* the reading new stores
last_changed_at_new_zero(reading) == 0

last_changed_at_new(reading) == reading

\* the error set returns when the dwell check fails
constrained_error_swapped(current_state, new_state) ==
    [from |-> new_state, to |-> current_state, code |-> 0]

constrained_error(current_state, new_state) ==
    [from |-> current_state, to |-> new_state, code |-> 0]

\* how often set calls the clock: once before the dwell check, and once more
\* after the delegated call returned Ok
clock_reads_before_return(rejected, delegated_ok) ==
    IF rejected THEN 1 ELSE 2

clock_reads(rejected, delegated_ok) ==
    IF rejected THEN 1 ELSE IF delegated_ok THEN 2 ELSE 1

\* ------------------------------------------------------------ the underlying machine
Other(s) == IF s = "A" THEN "B" ELSE "A"
HandlerFor(target) == IF target = "B" THEN handle_on ELSE handle_off

\* OnOff::new: the initial state, no handler is invoked
OnOff_new(on) == IF on THEN "B" ELSE "A"

\* OnOff::set: the state after the call, given the handler's answer
OnOff_set(current, target, ok) == IF ok THEN target ELSE current

is_on == state = "B"

is_off == state = "A"

\* set as a function of the controller it is called on: what it returns and
\* the state and stored reading it leaves
set_outcome(current_state, stored, new_state, first, second, answer) ==
    LET delta == assess_time_delta(stored, first)
        min == min_duration(current_state, minimum_on, minimum_off)
    IN IF dwell_constrained(min, delta)
       THEN [state |-> current_state, last_changed |-> stored,
             result |-> "Constrained"]
       ELSE [state |-> OnOff_set(current_state, new_state, answer),
             last_changed |-> last_changed_after(answer, stored, first, second),
             result |-> IF answer THEN "Ok" ELSE "HandlerErr"]

\* ------------------------------------------------------------ initial state
Init ==
    /\ constructed = FALSE
    /\ state = "A"
    /\ handle_on = FALSE
    /\ handle_off = FALSE
    /\ minimum_on = None
    /\ minimum_off = None
    /\ last_changed = 0
    /\ now \in Readings
    /\ op = "none"
    /\ result = "none"
    /\ called_on = 0
    /\ called_off = 0
    /\ handler_err = FALSE
    /\ real_in_state = 0
    /\ irregular = FALSE
    /\ requested = {}
    /\ error = {}
    /\ samples = 0
    /\ first_reading = now
    /\ construction_window = {}
    /\ twin = [state |-> "A", last_changed |-> 0, result |-> "none"]
    /\ queried = {}
    /\ prior_milliseconds = 0
    /\ later_milliseconds = 0
    /\ time_delta = 0
    /\ assessed = FALSE

\* ------------------------------------------------------------ TimeConstrainedOnOff::new
\* what a step of new leaves to observe: it reads the clock once, and the
\* dwell window of the initial state opens at that reading
NewRecord ==
    /\ requested' = {}
    /\ error' = {}
    /\ samples' = 1
    /\ first_reading' = now
    /\ queried' = {}
    /\ construction_window' = {now}
    /\ twin' = [state |-> state', last_changed |-> last_changed', result |-> "none"]

\* new entering its initial state through the handler of that state
New_enters_state(on, h_on, h_off, m_on, m_off) ==
    /\ ~constructed
    /\ constructed' = TRUE
    /\ last_changed' = last_changed_at_new(now)
    /\ state' = OnOff_new(on)
    /\ handle_on' = h_on
    /\ handle_off' = h_off
    /\ minimum_on' = m_on
    /\ minimum_off' = m_off
    /\ op' = "new"
    /\ result' = "none"
    /\ called_on' = IF on /\ h_on THEN 1 ELSE 0
    /\ called_off' = IF ~on /\ h_off THEN 1 ELSE 0
    /\ handler_err' = FALSE
    /\ real_in_state' = 0
    /\ irregular' = FALSE
    /\ UNCHANGED <<now, pure>>
    /\ NewRecord

New(on, h_on, h_off, m_on, m_off) ==
    /\ ~constructed
    /\ constructed' = TRUE
    /\ last_changed' = last_changed_at_new(now)
    /\ state' = OnOff_new(on)
    /\ handle_on' = h_on
    /\ handle_off' = h_off
    /\ minimum_on' = m_on
    /\ minimum_off' = m_off
    /\ op' = "new"
    /\ result' = "none"
    /\ called_on' = 0
    /\ called_off' = 0
    /\ handler_err' = FALSE
    /\ real_in_state' = 0
    /\ irregular' = FALSE
    /\ UNCHANGED <<now, pure>>
    /\ NewRecord

\* ------------------------------------------------------------ BangBang::set
\* One call of set(new_state), entered as `how` ("set", or "bang" through the
\* trait's toggle).  The first reading is `now`; `latency` ms pass before the
\* second reading, and `ok` is the answer of the target state's handler.
\* set with the delegation placed before the dwell check
SetCall_delegates_first(new_state, how, ok, latency) ==
    /\ constructed
    /\ op' = how
    /\ LET current_state == state
           first == now
           delta == assess_time_delta(last_changed, first)
           min == min_duration(current_state, minimum_on, minimum_off)
           second == (now + latency) % (MaxMs + 1)
           invoked == HandlerFor(new_state)
           answer == invoked => ok
           rejected == dwell_constrained(min, delta)
       IN /\ called_on' = IF invoked /\ new_state = "B" THEN 1 ELSE 0
          /\ called_off' = IF invoked /\ new_state = "A" THEN 1 ELSE 0
          /\ handler_err' = ~answer
          /\ state' = OnOff_set(current_state, new_state, answer)
          /\ result' = IF ~answer THEN "HandlerErr"
                       ELSE IF rejected THEN "Constrained" ELSE "Ok"
          /\ now' = second
          /\ last_changed' = last_changed_after(answer /\ ~rejected, last_changed,
                                                first, second)
          /\ real_in_state' = IF answer /\ new_state # current_state
                              THEN 0 ELSE Saturate(real_in_state + latency)
          /\ irregular' = IF answer /\ ~rejected THEN FALSE ELSE irregular
          /\ UNCHANGED <<handle_on, handle_off, minimum_on, minimum_off,
                         constructed>>
    /\ UNCHANGED pure

SetCall(new_state, how, ok, latency) ==
    /\ constructed
    /\ op' = how
    /\ LET current_state == state
           first == now
           delta == assess_time_delta(last_changed, first)
           min == min_duration(current_state, minimum_on, minimum_off)
       IN IF dwell_constrained(min, delta)
          THEN /\ ok /\ latency = 0      \* neither is used on this path
               /\ result' = "Constrained"
               /\ called_on' = 0
               /\ called_off' = 0
               /\ handler_err' = FALSE
               /\ UNCHANGED <<ctl, env>>
          ELSE LET second == (now + latency) % (MaxMs + 1)
                   invoked == HandlerFor(new_state)
                   answer == invoked => ok
               IN /\ invoked \/ ok           \* no handler, no answer to choose
                  /\ called_on' = IF invoked /\ new_state = "B" THEN 1 ELSE 0
                  /\ called_off' = IF invoked /\ new_state = "A" THEN 1 ELSE 0
                  /\ handler_err' = ~answer
                  /\ state' = OnOff_set(current_state, new_state, answer)
                  /\ result' = IF answer THEN "Ok" ELSE "HandlerErr"
                  /\ now' = second
                  /\ last_changed' = last_changed_after(answer, last_changed, first, second)
                  /\ real_in_state' = IF answer /\ new_state # current_state
                                      THEN 0 ELSE Saturate(real_in_state + latency)
                  /\ irregular' = IF answer THEN FALSE ELSE irregular
                  /\ UNCHANGED <<handle_on, handle_off, minimum_on, minimum_off,
                                 constructed>>
    /\ UNCHANGED pure

\* What a call of set leaves to observe: the request, the error value, the
\* number of clock readings.  The twin controller is handed the same request
\* (a bang toggles the twin's own state), readings and handler answer, unless
\* the request was rejected by the dwell constraint: then it is not handed it.
CallRecord(new_state, how) ==
    /\ requested' = {new_state}
    /\ error' = IF result' = "Constrained"
                THEN {constrained_error(state, new_state)} ELSE {}
    /\ samples' = clock_reads(result' = "Constrained", result' = "Ok")
    /\ first_reading' = now
    /\ queried' = {}
    /\ construction_window' =
            IF result' = "Ok" \/ now' < now THEN {} ELSE construction_window
    /\ twin' = IF result' = "Constrained"
               THEN twin
               ELSE set_outcome(twin.state, twin.last_changed,
                                IF how = "bang" THEN Other(twin.state) ELSE new_state,
                                now, now', ~handler_err')

\* set returning Ok at once when asked for the state it is in
Set_skips_current(new_state) ==
    \E ok \in BOOLEAN, latency \in 0..MaxLatency :
        IF new_state = state
        THEN /\ constructed /\ ok /\ latency = 0
             /\ op' = "set"
             /\ result' = "Ok"
             /\ called_on' = 0
             /\ called_off' = 0
             /\ handler_err' = FALSE
             /\ UNCHANGED <<ctl, env, pure>>
             /\ CallRecord(new_state, "set")
        ELSE /\ SetCall(new_state, "set", ok, latency)
             /\ CallRecord(new_state, "set")

\* set delegating the state opposite to the one asked for
Set_delegates_other(new_state) ==
    \E ok \in BOOLEAN, latency \in 0..MaxLatency :
        /\ SetCall(Other(new_state), "set", ok, latency)
        /\ CallRecord(new_state, "set")

Set(new_state) ==
    \E ok \in BOOLEAN, latency \in 0..MaxLatency :
        /\ SetCall(new_state, "set", ok, latency)
        /\ CallRecord(new_state, "set")

\* BangBang::bang: set to the state opposite to the current one
Bang ==
    \E ok \in BOOLEAN, latency \in 0..MaxLatency :
        /\ SetCall(Other(state), "bang", ok, latency)
        /\ CallRecord(Other(state), "bang")

\* ------------------------------------------------------------ the queries
\* state(), is_on() and is_off(), with the clock read while answering
Query_reads_clock ==
    /\ constructed
    /\ op' = "query"
    /\ queried' = {[state |-> state, is_on |-> is_on, is_off |-> is_off]}
    /\ result' = "none"
    /\ called_on' = 0
    /\ called_off' = 0
    /\ handler_err' = FALSE
    /\ requested' = {}
    /\ error' = {}
    /\ samples' = 1
    /\ first_reading' = now
    /\ last_changed' = now
    /\ UNCHANGED <<constructed, state, handle_on, handle_off, minimum_on,
                   minimum_off, env, pure, hist>>

\* state(), is_on() and is_off(): answer from bang_bang, touch nothing
Query ==
    /\ constructed
    /\ op' = "query"
    /\ queried' = {[state |-> state, is_on |-> is_on, is_off |-> is_off]}
    /\ result' = "none"
    /\ called_on' = 0
    /\ called_off' = 0
    /\ handler_err' = FALSE
    /\ requested' = {}
    /\ error' = {}
    /\ samples' = 0
    /\ first_reading' = now
    /\ UNCHANGED <<ctl, env, pure, hist>>

\* ------------------------------------------------------------ the clock
Quiet ==
    /\ result' = "none"
    /\ called_on' = 0
    /\ called_off' = 0
    /\ handler_err' = FALSE
    /\ requested' = {}
    /\ error' = {}
    /\ samples' = 0
    /\ first_reading' = now'
    /\ queried' = {}
    /\ twin' = twin

\* one millisecond passes; the counter wraps to 0 after MaxMs
Tick ==
    /\ constructed
    /\ now' = (now + 1) % (MaxMs + 1)
    /\ real_in_state' = Saturate(real_in_state + 1)
    /\ op' = "tick"
    /\ Quiet
    /\ construction_window' = IF now' < now THEN {} ELSE construction_window
    /\ UNCHANGED <<ctl, irregular, pure>>

\* the counter is externally reset to a smaller value
Reset(value) ==
    /\ constructed
    /\ value < now
    /\ now' = value
    /\ irregular' = (irregular \/ value > 0)
    /\ op' = "reset"
    /\ Quiet
    /\ construction_window' = {}
    /\ UNCHANGED <<ctl, real_in_state, pure>>

Next ==
    \/ \E on \in BOOLEAN, h_on \in BOOLEAN, h_off \in BOOLEAN,
          m_on \in OptionDuration, m_off \in OptionDuration :
            New(on, h_on, h_off, m_on, m_off)
    \/ \E new_state \in BangBangState : Set(new_state)
    \/ Bang
    \/ Tick
    \/ \E value \in Readings : Reset(value)
    \/ Query

Spec == Init /\ [][Next]_vars

\* ------------------------------------------------------------ a caller that keeps retrying
\* a call of set or bang that passes the dwell check
Pass == ((\E new_state \in BangBangState : Set(new_state)) \/ Bang)
        /\ result' # "Constrained"

\* The counter only advances (and wraps); the caller retries at every
\* reading, so a call that can pass at infinitely many instants is made.
NextRetry ==
    \/ \E on \in BOOLEAN, m_on \in OptionDuration, m_off \in OptionDuration :
            New(on, FALSE, FALSE, m_on, m_off)
    \/ \E new_state \in BangBangState : Set(new_state)
    \/ Bang
    \/ Tick

SpecRetry == Init /\ [][NextRetry]_vars /\ WF_vars(Tick) /\ SF_vars(Pass)

\* ------------------------------------------------------------ assess_time_delta on its own
Samples == (0..Near) \cup ((2^30 - Near)..(2^30 + Near)) \cup ((Top - Near)..Top)

InitAssess ==
    /\ constructed = FALSE
    /\ state = "A"
    /\ handle_on = FALSE
    /\ handle_off = FALSE
    /\ minimum_on = None
    /\ minimum_off = None
    /\ last_changed = 0
    /\ now = 0
    /\ op = "none"
    /\ result = "none"
    /\ called_on = 0
    /\ called_off = 0
    /\ handler_err = FALSE
    /\ real_in_state = 0
    /\ irregular = FALSE
    /\ requested = {}
    /\ error = {}
    /\ samples = 0
    /\ first_reading = now
    /\ construction_window = {}
    /\ twin = [state |-> "A", last_changed |-> 0, result |-> "none"]
    /\ queried = {}
    /\ prior_milliseconds \in Samples
    /\ later_milliseconds \in Samples
    /\ time_delta = 0
    /\ assessed = FALSE

Assess ==
    /\ ~assessed
    /\ time_delta' = assess_time_delta(prior_milliseconds, later_milliseconds)
    /\ assessed' = TRUE
    /\ UNCHANGED <<ctl, obs, env, call, hist, prior_milliseconds, later_milliseconds>>

NextAssess == Assess

SpecAssess == InitAssess /\ [][NextAssess]_vars

\* ------------------------------------------------------------ properties
IsCall == op \in {"set", "bang"}
\* the step is a call of set or bang (every action records its operation)
IsCallStep == constructed /\ op' \in {"set", "bang"}
\* the minimum configured for the state the controller is in
CurrentMinimum == IF state = "B" THEN minimum_on ELSE minimum_off
\* elapsed time as set computes it from the stored reading and the clock
Elapsed == assess_time_delta(last_changed, now)

\* C1: a set/bang call is rejected by the dwell constraint if and only if a
\* minimum m is configured for the current state and m > elapsed, where
\* elapsed = assess(last_changed, first clock reading); elapsed = m passes.
C1_StrictDwellCheck ==
    [][IsCallStep =>
        ((result' = "Constrained") <=>
            (\E m \in CurrentMinimum : m > Elapsed * SubMs))]_vars

\* a call that passed the dwell check with elapsed exactly equal to a
\* positive minimum (the handler then failed, so the readings are still there)
C1_Witness ==
    /\ IsCall /\ result = "HandlerErr"
    /\ \E m \in CurrentMinimum : m > 0 /\ m = Elapsed * SubMs

\* C2: a call rejected by the dwell constraint invokes no handler and leaves
\* the state, the stored reading and the dwell configuration as they were.
C2_RejectionChangesNothing ==
    [][(IsCallStep /\ result' = "Constrained") =>
        /\ called_on' = 0 /\ called_off' = 0
        /\ state' = state
        /\ last_changed' = last_changed
        /\ minimum_on' = minimum_on
        /\ minimum_off' = minimum_off]_vars

\* a rejected request for either target, with both handlers registered
C2_Witness ==
    /\ IsCall /\ result = "Constrained"
    /\ handle_on /\ handle_off
    /\ Elapsed > 0

\* C3 as stated: a successful transition out of a state with minimum m happens
\* only after at least m of real time in that state, for every clock the
\* contract allows (a wrap, a reset to any smaller value).
C3_DwellInRealTime ==
    [][(IsCallStep /\ result' = "Ok" /\ state' # state) =>
        \A m \in CurrentMinimum : real_in_state * SubMs >= m]_vars

\* C3 amended: the same, provided that whenever the counter went backwards
\* since the stored reading was taken it restarted from zero (a wrap, or a
\* reset to zero).
C3_DwellInRealTimeFromZero ==
    [][(IsCallStep /\ result' = "Ok" /\ state' # state /\ ~irregular) =>
        \A m \in CurrentMinimum : real_in_state * SubMs >= m]_vars

\* a bang has just left a state whose minimum is the largest one
C3_Witness ==
    /\ op = "bang" /\ result = "Ok"
    /\ min_duration(Other(state), minimum_on, minimum_off) = Some(MaxMin)

\* C4: once a request is rejected by the dwell constraint, some later request
\* passes the dwell check, when the counter keeps advancing and the caller
\* keeps retrying.
C4_AlwaysRecoverable ==
    (IsCall /\ result = "Constrained") ~> (IsCall /\ result # "Constrained")

\* C5: when the dwell check passes and the target's handler reports failure,
\* the call returns that failure and neither the state nor the stored reading
\* changes.
C5_HandlerFailureKeepsWindow ==
    [][(IsCallStep /\ handler_err') =>
        /\ result' = "HandlerErr"
        /\ state' = state
        /\ last_changed' = last_changed]_vars

\* a handler failed on a call that satisfied a positive minimum
C5_Witness ==
    /\ IsCall /\ result = "HandlerErr" /\ handler_err
    /\ \E m \in CurrentMinimum : m > 0 /\ m <= Elapsed * SubMs
    /\ now # last_changed

\* C6: with no minimum for either state and no failing handler, every bang
\* succeeds and moves to the opposite state, whatever the clock reads.
C6_UnconstrainedBangAlternates ==
    [][(constructed /\ op' = "bang" /\ minimum_on = None /\ minimum_off = None
        /\ ~handler_err') =>
        /\ result' = "Ok"
        /\ state' = Other(state)]_vars

\* an unconstrained bang, its handler registered, has turned the controller
\* off while the counter read 0
C6_Witness ==
    /\ op = "bang" /\ result = "Ok"
    /\ minimum_on = None /\ minimum_off = None
    /\ handle_on /\ handle_off /\ called_off = 1
    /\ is_off /\ now = 0

\* C7: a rejection is always by the minimum of the state the controller is in:
\* minimum_on rejects only while on (B), minimum_off only while off (A), and a
\* request made in a state whose minimum is None is never rejected.
C7_MinimumOfCurrentState ==
    [][(IsCallStep /\ result' = "Constrained") =>
        /\ is_on => \E m \in minimum_on : m > Elapsed * SubMs
        /\ is_off => \E m \in minimum_off : m > Elapsed * SubMs]_vars

\* a request rejected while off although the on state has no minimum
C7_Witness ==
    /\ IsCall /\ result = "Constrained"
    /\ is_off /\ minimum_on = None /\ minimum_off # None

\* C8 as stated: the stored reading is the one taken at construction or at the
\* most recent successful change of state, and no other step touches it.
C8_StampOfLastStateChange ==
    [][constructed' =>
        IF op' = "new" \/ (IsCallStep /\ result' = "Ok" /\ state' # state)
        THEN last_changed' = now'
        ELSE last_changed' = last_changed]_vars

\* C8 amended: the stored reading is the one taken at construction or at the
\* most recent successful set/bang call, whether or not that call changed the
\* state (a successful set to the current state restamps it); a rejected or
\* failed call never touches it.
C8_StampOfLastSuccessfulCall ==
    [][constructed' =>
        IF op' = "new" \/ (IsCallStep /\ result' = "Ok")
        THEN last_changed' = now'
        ELSE last_changed' = last_changed]_vars

\* a set to the already-current state has succeeded and restamped
C8_Witness ==
    /\ op = "set" /\ result = "Ok"
    /\ real_in_state > 0
    /\ last_changed = now

\* C9: assess_time_delta(prior, later) is later - prior when later >= prior
\* and later itself when later < prior.
C9_AssessTimeDelta ==
    assessed =>
        /\ later_milliseconds >= prior_milliseconds
            => time_delta = later_milliseconds - prior_milliseconds
        /\ later_milliseconds < prior_milliseconds
            => time_delta = later_milliseconds

\* the function was applied across an overrun of the counter
C9_Witness ==
    /\ assessed
    /\ later_milliseconds < prior_milliseconds
    /\ prior_milliseconds = Top
    /\ time_delta = later_milliseconds /\ time_delta > 0

\* C10: construction invokes neither handler; a handler is invoked only by a
\* set/bang call that was not rejected by the dwell constraint.
C10_NewInvokesNoHandler ==
    /\ op = "new" => (called_on = 0 /\ called_off = 0)
    /\ (called_on > 0 \/ called_off > 0) =>
            (IsCall /\ result \in {"Ok", "HandlerErr"})

\* a controller was just constructed on, with both handlers and both minimums
C10_Witness ==
    /\ op = "new" /\ is_on
    /\ handle_on /\ handle_off
    /\ minimum_on # None /\ minimum_off # None

\* C11 as stated: while the controller is in the dwell window opened at
\* construction (reading t0, no wrap or reset since, a minimum m configured for
\* the initial state), every request is rejected while the clock reads less
\* than t0 + m, and the first request at t0 + m or more succeeds and restamps.
C11_WindowFromConstruction ==
    [][(IsCallStep /\ CurrentMinimum # None) =>
        \A t0 \in construction_window :
            IF \E m \in CurrentMinimum : (now - t0) * SubMs < m
            THEN result' = "Constrained"
            ELSE result' = "Ok" /\ last_changed' = now']_vars

\* C11 amended: the same, except that the first request at t0 + m or more
\* passes the dwell check and succeeds only if the target state's handler does
\* not report failure; if it does, the call returns that failure and the
\* window still runs from t0.
C11_WindowFromConstructionUnlessHandlerFails ==
    [][(IsCallStep /\ CurrentMinimum # None) =>
        \A t0 \in construction_window :
            IF \E m \in CurrentMinimum : (now - t0) * SubMs < m
            THEN result' = "Constrained"
            ELSE IF handler_err'
                 THEN result' = "HandlerErr" /\ last_changed' = t0
                 ELSE result' = "Ok" /\ last_changed' = now']_vars

\* a request rejected one millisecond after a construction at a nonzero reading
C11_Witness ==
    /\ IsCall /\ result = "Constrained"
    /\ \E t0 \in construction_window : t0 > 0 /\ now = t0 + 1

\* C12: after a successful set/bang the stored reading is the second clock
\* reading, taken once the underlying machine returned, not the first.
C12_SecondReadingStored ==
    (IsCall /\ result = "Ok") => last_changed = now

\* a successful call during which the clock advanced, in a state with a minimum
C12_Witness ==
    /\ IsCall /\ result = "Ok"
    /\ first_reading # now
    /\ CurrentMinimum # None

\* C13: a set whose target is the current state is rejected exactly when the
\* current state's minimum is not met; otherwise it is delegated (the state's
\* handler, if registered, is invoked once) and on success the stored reading
\* is replaced by a fresh one although the state is the same.
C13_SameStateNotSpecial ==
    [][(constructed /\ op' = "set" /\ requested' = {state}) =>
        IF \E m \in CurrentMinimum : m > Elapsed * SubMs
        THEN result' = "Constrained"
        ELSE /\ result' \in {"Ok", "HandlerErr"}
             /\ is_on => called_on' = (IF handle_on THEN 1 ELSE 0)
             /\ is_off => called_off' = (IF handle_off THEN 1 ELSE 0)
             /\ result' = "Ok" => (state' = state /\ last_changed' = now')]_vars

\* a set to the state the controller had been in for a while has succeeded,
\* through the handler of that state
C13_Witness ==
    /\ op = "set" /\ result = "Ok" /\ requested = {state}
    /\ real_in_state > 0
    /\ is_on /\ called_on = 1
    /\ last_changed = now

\* C14: after a successful set(target) the state is target, the target's
\* handler (if registered) was invoked exactly once and the other one not at
\* all; a bang asks for the state opposite to the one it was called in.
C14_SuccessCommitsTarget ==
    [][(IsCallStep /\ result' = "Ok") =>
        /\ requested' = {state'}
        /\ called_on' = (IF state' = "B" /\ handle_on THEN 1 ELSE 0)
        /\ called_off' = (IF state' = "A" /\ handle_off THEN 1 ELSE 0)
        /\ op' = "bang" => state' = Other(state)]_vars

\* a bang has turned the controller on through the on handler alone
C14_Witness ==
    /\ op = "bang" /\ result = "Ok"
    /\ handle_on /\ handle_off
    /\ is_on /\ called_on = 1 /\ called_off = 0

\* C15: a dwell-rejected set(target) returns StateChangeTemporarilyConstrained
\* with from the current state, to the target and code 0.
C15_ConstrainedErrorFields ==
    [][(IsCallStep /\ result' = "Constrained") =>
        \E target \in requested' :
            error' = {[from |-> state, to |-> target, code |-> 0]}]_vars

\* a request to turn on, rejected while off
C15_Witness ==
    /\ IsCall /\ result = "Constrained"
    /\ error = {[from |-> "A", to |-> "B", code |-> 0]}

\* C16: the twin controller, which is handed every request except those the
\* dwell constraint rejects, is always in the same state with the same stored
\* reading, and every request handed to both has the same outcome.
C16_RejectedRequestsLeaveNoTrace ==
    constructed =>
        /\ twin.state = state
        /\ twin.last_changed = last_changed
        /\ (IsCall /\ result # "Constrained") => twin.result = result

\* a request was rejected some time after a success the twin also saw
C16_Witness ==
    /\ IsCall /\ result = "Constrained"
    /\ twin.result = "Ok"
    /\ now # last_changed

\* C17: new reads the clock once, a set/bang that is rejected or fails in the
\* handler reads it once, a set/bang that succeeds reads it twice.
C17_ClockReadings ==
    /\ op = "new" => samples = 1
    /\ (IsCall /\ result \in {"Constrained", "HandlerErr"}) => samples = 1
    /\ (IsCall /\ result = "Ok") => samples = 2

\* a call that passed the dwell check and failed in the handler
C17_Witness ==
    /\ IsCall /\ result = "HandlerErr" /\ samples = 1
    /\ CurrentMinimum # None

\* C18: exactly one of is_on and is_off holds and they agree with the state;
\* a query answers accordingly, changes no field, invokes no handler and does
\* not read the clock.
C18_QueriesArePure ==
    /\ [](constructed => /\ is_on # is_off
                         /\ is_on <=> (state = "B")
                         /\ is_off <=> (state = "A"))
    /\ [][(constructed /\ op' = "query") =>
            /\ queried' = {[state |-> state, is_on |-> (state = "B"),
                            is_off |-> (state = "A")]}
            /\ UNCHANGED <<state, last_changed, minimum_on, minimum_off, now>>
            /\ called_on' = 0 /\ called_off' = 0
            /\ samples' = 0]_vars

\* a query answered on while a minimum was pending
C18_Witness ==
    /\ op = "query"
    /\ queried = {[state |-> "B", is_on |-> TRUE, is_off |-> FALSE]}
    /\ \E m \in CurrentMinimum : m > Elapsed * SubMs

\* C19: the result r of assess_time_delta satisfies 0 <= r <= later; the
\* subtraction never underflows (an underflow would show as a negative r).
C19_AssessNeverUnderflows ==
    assessed =>
        /\ 0 <= time_delta
        /\ time_delta <= later_milliseconds

\* applied with later = 0 below the largest prior: the result is 0
C19_Witness ==
    /\ assessed
    /\ prior_milliseconds = Top /\ later_milliseconds = 0
    /\ time_delta = 0

====
